---- MODULE Spec2Model ----
(***************************************************************************)
(* UnionFind<K> of src/unionfind.rs: a disjoint-set structure over the     *)
(* elements 0..n-1, held in two parallel vectors, parent and rank.         *)
(*                                                                         *)
(* Vectors are modelled as functions over 0..len-1 (Rust indexing is       *)
(* 0-based).  Every public method is one action.  A panic leaves the       *)
(* structure in the state the method had reached when it unwound.          *)
(***************************************************************************)
EXTENDS Integers, FiniteSets, Sequences

\* Largest n passed to new(n).
MaxN == 4
\* Number of distinct out-of-range indices (n, n+1, ...) offered as arguments.
MaxOver == 2
\* Number of values of the index type K (K = u8, the narrowest unsigned type).
KRange == 256
\* Number of values of a rank cell (u8).
RankRange == 256

VARIABLES
    parent,   \* UnionFind.parent : Vec<K>
    rank,     \* UnionFind.rank : Vec<u8>
    n,        \* the argument of new(n)
    wrapped,  \* TRUE iff new(n) incremented its index past the largest K
    frame,    \* the locals of new(n) (its position, i, the vectors it fills)
    op,       \* the last call: "new", "find", "find_mut" or "union"
    ax,       \* its first argument
    ay,       \* its second argument (union only)
    panicked, \* TRUE iff the last call panicked
    retK,     \* the K it returned (find, find_mut)
    retB,     \* the bool it returned (union)
    parent0,  \* parent as it was when the last call started
    rank0,    \* rank as it was when the last call started
    repeat,   \* TRUE iff the last call repeats the method and arguments
              \* of the call before it
    part,     \* abstract partition: part[i] is the class of i under the
              \* closure of the in-range pairs passed to union so far
    merges    \* number of union calls that returned true so far

vars == <<parent, rank, n, wrapped, frame, op, ax, ay, panicked, retK, retB,
          parent0, rank0, repeat, part, merges>>

-----------------------------------------------------------------------------
(* Vec<T> as a function over 0..len-1 *)

EmptyVec == [j \in {} |-> 0]

VecLen(xs) == Cardinality(DOMAIN xs)

Push(xs, v) ==
    LET len == VecLen(xs)
    IN [j \in 0..len |-> IF j < len THEN xs[j] ELSE v]

\* to_uint: K -> usize.  Every K value is representable in usize, so the
\* Option is always Some and unwrap returns the same number.
to_uint(x) == x

\* The debug assertion of get_unchecked.
InBounds(xs, index) == index < VecLen(xs)

\* get_unchecked: the element at index.
get_unchecked(xs, index) == xs[index]

-----------------------------------------------------------------------------
(* UnionFind::new *)

\* The locals of new(nn) when it starts: the two empty vectors, the index
\* i = zero, the position in the body and the counter of the current loop.
NewStart(nn) ==
    [pc |-> "rank", parent |-> EmptyVec, rank |-> EmptyVec,
     i |-> 0, iter |-> 0, wrapped |-> FALSE]

\* Faulty construction: the first iteration is not unrolled, each of the n
\* iterations pushes i and then increments it.
NewStep_no_unroll(st, nn) ==
    IF st.pc = "rank"
    THEN IF st.iter < nn
         THEN [st EXCEPT !.rank = Push(@, 0), !.iter = @ + 1]
         ELSE [st EXCEPT !.pc = "first"]
    ELSE IF st.pc = "first"
    THEN [st EXCEPT !.pc = "parent", !.iter = 0]
    ELSE IF st.pc = "parent"
    THEN IF st.iter < nn
         THEN [st EXCEPT !.parent = Push(@, st.i),
                         !.i = (st.i + 1) % KRange,
                         !.wrapped = @ \/ (st.i + 1 >= KRange),
                         !.iter = @ + 1]
         ELSE [st EXCEPT !.pc = "done"]
    ELSE st

\* Faulty construction: the first iteration is not unrolled, each of the n
\* iterations increments i and then pushes it.
NewStep_preincrement(st, nn) ==
    IF st.pc = "rank"
    THEN IF st.iter < nn
         THEN [st EXCEPT !.rank = Push(@, 0), !.iter = @ + 1]
         ELSE [st EXCEPT !.pc = "first"]
    ELSE IF st.pc = "first"
    THEN [st EXCEPT !.pc = "parent", !.iter = 0]
    ELSE IF st.pc = "parent"
    THEN IF st.iter < nn
         THEN [st EXCEPT !.parent = Push(@, (st.i + 1) % KRange),
                         !.i = (st.i + 1) % KRange,
                         !.wrapped = @ \/ (st.i + 1 >= KRange),
                         !.iter = @ + 1]
         ELSE [st EXCEPT !.pc = "done"]
    ELSE st

\* One step of the body of new(nn):
\*   "rank"   for _ in range(0, n) { rank.push(0) }
\*   "first"  if n > 0 { parent.push(i) }
\*   "parent" for _ in range(1, n) { i = i + one; parent.push(i) }
\* i + one is computed in K: it wraps past the largest K, which wrapped
\* records.
NewStep(st, nn) ==
    IF st.pc = "rank"
    THEN IF st.iter < nn
         THEN [st EXCEPT !.rank = Push(@, 0), !.iter = @ + 1]
         ELSE [st EXCEPT !.pc = "first"]
    ELSE IF st.pc = "first"
    THEN [st EXCEPT !.parent = IF nn > 0 THEN Push(@, st.i) ELSE @,
                    !.pc = "parent", !.iter = 1]
    ELSE IF st.pc = "parent"
    THEN IF st.iter < nn
         THEN [st EXCEPT !.parent = Push(@, (st.i + 1) % KRange),
                         !.i = (st.i + 1) % KRange,
                         !.wrapped = @ \/ (st.i + 1 >= KRange),
                         !.iter = @ + 1]
         ELSE [st EXCEPT !.pc = "done"]
    ELSE st

\* The body of new(nn) run to its end.
RECURSIVE NewRun(_, _)
NewRun(st, nn) ==
    IF st.pc = "done" THEN st ELSE NewRun(NewStep(st, nn), nn)

\* new(n): UnionFind{parent: parent, rank: rank}.
new(nn) ==
    LET st == NewRun(NewStart(nn), nn)
    IN [parent |-> st.parent, rank |-> st.rank, wrapped |-> st.wrapped]

-----------------------------------------------------------------------------
(* UnionFind::find *)

\* Faulty find loop: stops after the first parent link.
find_loop_one_hop(p, x) == get_unchecked(p, to_uint(x))

\* The loop of find: follow parent until an element is its own parent.
RECURSIVE find_loop(_, _)
find_loop(p, x) ==
    LET xparent == get_unchecked(p, to_uint(x))
    IN IF xparent = x THEN x ELSE find_loop(p, xparent)

\* find(&self, x): panics when x is out of bounds.
find(p, x) ==
    IF ~(to_uint(x) < VecLen(p))
    THEN [panic |-> TRUE, ret |-> 0]
    ELSE [panic |-> FALSE, ret |-> find_loop(p, x)]

-----------------------------------------------------------------------------
(* UnionFind::find_mut *)

\* Faulty compression: the recursive call's writes are lost, only x is
\* re-pointed (the parent is resolved by a non-mutating walk).
find_mut_recursive_only_x(p, x) ==
    LET xparent == get_unchecked(p, to_uint(x))
    IN IF xparent # x
       THEN [parent |-> [p EXCEPT ![to_uint(x)] = find_loop(p, xparent)],
             ret |-> find_loop(p, xparent)]
       ELSE [parent |-> p, ret |-> xparent]

\* Faulty compression: path halving, x is re-pointed to its grandparent
\* instead of the representative.
RECURSIVE find_mut_recursive_halving(_, _)
find_mut_recursive_halving(p, x) ==
    LET xparent == get_unchecked(p, to_uint(x))
    IN IF xparent # x
       THEN LET sub == find_mut_recursive_halving(p, xparent)
            IN [parent |-> [sub.parent EXCEPT
                               ![to_uint(x)] = get_unchecked(p, to_uint(xparent))],
                ret |-> sub.ret]
       ELSE [parent |-> p, ret |-> xparent]

\* Faulty compression: the write-back stores x itself instead of xrep.
RECURSIVE find_mut_recursive_self(_, _)
find_mut_recursive_self(p, x) ==
    LET xparent == get_unchecked(p, to_uint(x))
    IN IF xparent # x
       THEN LET sub == find_mut_recursive_self(p, xparent)
            IN [parent |-> [sub.parent EXCEPT ![to_uint(x)] = x],
                ret |-> sub.ret]
       ELSE [parent |-> p, ret |-> xparent]

RECURSIVE find_mut_recursive(_, _)
find_mut_recursive(p, x) ==
    LET xparent == get_unchecked(p, to_uint(x))
    IN IF xparent # x
       THEN LET sub == find_mut_recursive(p, xparent)
            IN [parent |-> [sub.parent EXCEPT ![to_uint(x)] = sub.ret],
                ret |-> sub.ret]
       ELSE [parent |-> p, ret |-> xparent]

\* find_mut(&mut self, x): panics when x is out of bounds.
find_mut(p, x) ==
    IF ~(to_uint(x) < VecLen(p))
    THEN [panic |-> TRUE, parent |-> p, ret |-> 0]
    ELSE LET r == find_mut_recursive(p, x)
         IN [panic |-> FALSE, parent |-> r.parent, ret |-> r.ret]

-----------------------------------------------------------------------------
(* UnionFind::union *)

\* Faulty link: in the xrank < yrank branch the write goes to the wrong cell
\* (parent[yrepu] = yrep), so nothing is attached.
link_wrong_cell(p, rk, xrep, yrep) ==
    LET xrepu == to_uint(xrep)
        yrepu == to_uint(yrep)
        xrank == rk[xrepu]
        yrank == rk[yrepu]
    IN IF xrank < yrank
       THEN [parent |-> [p EXCEPT ![yrepu] = yrep], rank |-> rk]
       ELSE IF xrank > yrank
       THEN [parent |-> [p EXCEPT ![yrepu] = xrep], rank |-> rk]
       ELSE [parent |-> [p EXCEPT ![yrepu] = xrep],
             rank |-> [rk EXCEPT ![xrepu] = (rk[xrepu] + 1) % RankRange]]

\* Faulty link: the tie branch raises the rank but forgets the parent write.
link_tie_rank_only(p, rk, xrep, yrep) ==
    LET xrepu == to_uint(xrep)
        yrepu == to_uint(yrep)
        xrank == rk[xrepu]
        yrank == rk[yrepu]
    IN IF xrank < yrank
       THEN [parent |-> [p EXCEPT ![xrepu] = yrep], rank |-> rk]
       ELSE IF xrank > yrank
       THEN [parent |-> [p EXCEPT ![yrepu] = xrep], rank |-> rk]
       ELSE [parent |-> p,
             rank |-> [rk EXCEPT ![xrepu] = (rk[xrepu] + 1) % RankRange]]

\* Faulty link: on a tie x goes under y (and y's rank grows).
link_tie_x_under_y(p, rk, xrep, yrep) ==
    LET xrepu == to_uint(xrep)
        yrepu == to_uint(yrep)
        xrank == rk[xrepu]
        yrank == rk[yrepu]
    IN IF xrank < yrank
       THEN [parent |-> [p EXCEPT ![xrepu] = yrep], rank |-> rk]
       ELSE IF xrank > yrank
       THEN [parent |-> [p EXCEPT ![yrepu] = xrep], rank |-> rk]
       ELSE [parent |-> [p EXCEPT ![xrepu] = yrep],
             rank |-> [rk EXCEPT ![yrepu] = (rk[yrepu] + 1) % RankRange]]

\* Faulty link: the first branch is not chained to the second with else, so
\* when xrank < yrank the final else branch runs as well.
link_missing_else(p, rk, xrep, yrep) ==
    LET xrepu == to_uint(xrep)
        yrepu == to_uint(yrep)
        xrank == rk[xrepu]
        yrank == rk[yrepu]
        p1 == IF xrank < yrank THEN [p EXCEPT ![xrepu] = yrep] ELSE p
    IN IF xrank > yrank
       THEN [parent |-> [p1 EXCEPT ![yrepu] = xrep], rank |-> rk]
       ELSE [parent |-> [p1 EXCEPT ![yrepu] = xrep],
             rank |-> [rk EXCEPT ![xrepu] = (rk[xrepu] + 1) % RankRange]]

\* Faulty link: the tie branch attaches y under x but leaves the rank alone.
link_tie_no_rank(p, rk, xrep, yrep) ==
    LET xrepu == to_uint(xrep)
        yrepu == to_uint(yrep)
        xrank == rk[xrepu]
        yrank == rk[yrepu]
    IN IF xrank < yrank
       THEN [parent |-> [p EXCEPT ![xrepu] = yrep], rank |-> rk]
       ELSE [parent |-> [p EXCEPT ![yrepu] = xrep], rank |-> rk]

\* Faulty link: the tie branch raises the rank of yrep, the representative
\* that has just become a member.
link_tie_rank_of_y(p, rk, xrep, yrep) ==
    LET xrepu == to_uint(xrep)
        yrepu == to_uint(yrep)
        xrank == rk[xrepu]
        yrank == rk[yrepu]
    IN IF xrank < yrank
       THEN [parent |-> [p EXCEPT ![xrepu] = yrep], rank |-> rk]
       ELSE IF xrank > yrank
       THEN [parent |-> [p EXCEPT ![yrepu] = xrep], rank |-> rk]
       ELSE [parent |-> [p EXCEPT ![yrepu] = xrep],
             rank |-> [rk EXCEPT ![yrepu] = (rk[yrepu] + 1) % RankRange]]

\* Faulty link: the rank of the new representative is raised in every
\* branch, not only on a tie.
link_always_rank_up(p, rk, xrep, yrep) ==
    LET xrepu == to_uint(xrep)
        yrepu == to_uint(yrep)
        xrank == rk[xrepu]
        yrank == rk[yrepu]
    IN IF xrank < yrank
       THEN [parent |-> [p EXCEPT ![xrepu] = yrep],
             rank |-> [rk EXCEPT ![yrepu] = (rk[yrepu] + 1) % RankRange]]
       ELSE [parent |-> [p EXCEPT ![yrepu] = xrep],
             rank |-> [rk EXCEPT ![xrepu] = (rk[xrepu] + 1) % RankRange]]

\* Lines 128-144: link the two distinct representatives by rank.
link(p, rk, xrep, yrep) ==
    LET xrepu == to_uint(xrep)
        yrepu == to_uint(yrep)
        xrank == rk[xrepu]
        yrank == rk[yrepu]
    IN IF xrank < yrank
       THEN [parent |-> [p EXCEPT ![xrepu] = yrep], rank |-> rk]
       ELSE IF xrank > yrank
       THEN [parent |-> [p EXCEPT ![yrepu] = xrep], rank |-> rk]
       ELSE [parent |-> [p EXCEPT ![yrepu] = xrep],
             rank |-> [rk EXCEPT ![xrepu] = (rk[xrepu] + 1) % RankRange]]

\* Faulty union: the xrep == yrep test is missing.
union_no_same_check(p, rk, x, y) ==
    IF x = y
    THEN [panic |-> FALSE, ret |-> FALSE, parent |-> p, rank |-> rk]
    ELSE
    LET fx == find_mut(p, x)
    IN IF fx.panic
       THEN [panic |-> TRUE, ret |-> FALSE, parent |-> fx.parent, rank |-> rk]
       ELSE
       LET fy == find_mut(fx.parent, y)
       IN IF fy.panic
          THEN [panic |-> TRUE, ret |-> FALSE, parent |-> fy.parent, rank |-> rk]
          ELSE LET l == link(fy.parent, rk, fx.ret, fy.ret)
               IN [panic |-> FALSE, ret |-> TRUE,
                   parent |-> l.parent, rank |-> l.rank]

\* Faulty union: links the elements x and y themselves, not their
\* representatives.
union_links_elements(p, rk, x, y) ==
    IF x = y
    THEN [panic |-> FALSE, ret |-> FALSE, parent |-> p, rank |-> rk]
    ELSE
    LET fx == find_mut(p, x)
    IN IF fx.panic
       THEN [panic |-> TRUE, ret |-> FALSE, parent |-> fx.parent, rank |-> rk]
       ELSE
       LET fy == find_mut(fx.parent, y)
       IN IF fy.panic
          THEN [panic |-> TRUE, ret |-> FALSE, parent |-> fy.parent, rank |-> rk]
          ELSE IF fx.ret = fy.ret
          THEN [panic |-> FALSE, ret |-> FALSE, parent |-> fy.parent, rank |-> rk]
          ELSE LET l == link(fy.parent, rk, x, y)
               IN [panic |-> FALSE, ret |-> TRUE,
                   parent |-> l.parent, rank |-> l.rank]

\* Faulty union: the x == y fast path is missing.
union_no_fast_path(p, rk, x, y) ==
    LET fx == find_mut(p, x)
    IN IF fx.panic
       THEN [panic |-> TRUE, ret |-> FALSE, parent |-> fx.parent, rank |-> rk]
       ELSE
       LET fy == find_mut(fx.parent, y)
       IN IF fy.panic
          THEN [panic |-> TRUE, ret |-> FALSE, parent |-> fy.parent, rank |-> rk]
          ELSE IF fx.ret = fy.ret
          THEN [panic |-> FALSE, ret |-> FALSE, parent |-> fy.parent, rank |-> rk]
          ELSE LET l == link(fy.parent, rk, fx.ret, fy.ret)
               IN [panic |-> FALSE, ret |-> TRUE,
                   parent |-> l.parent, rank |-> l.rank]

\* union(&mut self, x, y).
union(p, rk, x, y) ==
    IF x = y
    THEN [panic |-> FALSE, ret |-> FALSE, parent |-> p, rank |-> rk]
    ELSE
    LET fx == find_mut(p, x)
    IN IF fx.panic
       THEN [panic |-> TRUE, ret |-> FALSE, parent |-> fx.parent, rank |-> rk]
       ELSE
       LET fy == find_mut(fx.parent, y)
       IN IF fy.panic
          THEN [panic |-> TRUE, ret |-> FALSE, parent |-> fy.parent, rank |-> rk]
          ELSE IF fx.ret = fy.ret
          THEN [panic |-> FALSE, ret |-> FALSE, parent |-> fy.parent, rank |-> rk]
          ELSE LET l == link(fy.parent, rk, fx.ret, fy.ret)
               IN [panic |-> FALSE, ret |-> TRUE,
                   parent |-> l.parent, rank |-> l.rank]

-----------------------------------------------------------------------------
(* The state machine *)

\* Arguments offered to the methods: every valid index and MaxOver invalid ones.
Args == 0..(n + MaxOver - 1)

\* The abstract partition after adding the pair (x, y): the classes of x and
\* y become one, named by its least element.
Merge(pt, x, y) ==
    LET m == IF pt[x] < pt[y] THEN pt[x] ELSE pt[y]
    IN [i \in DOMAIN pt |-> IF pt[i] = pt[x] \/ pt[i] = pt[y] THEN m ELSE pt[i]]

\* The state after new(nn).
Constructed(nn) ==
    /\ n = nn
    /\ parent = new(nn).parent
    /\ rank = new(nn).rank
    /\ wrapped = new(nn).wrapped
    /\ frame = NewRun(NewStart(nn), nn)
    /\ op = "new"
    /\ ax = 0
    /\ ay = 0
    /\ panicked = FALSE
    /\ retK = 0
    /\ retB = FALSE
    /\ parent0 = parent
    /\ rank0 = rank
    /\ repeat = FALSE
    /\ part = [i \in 0..(nn - 1) |-> i]
    /\ merges = 0

Init == \E nn \in 0..MaxN : Constructed(nn)

DoFind ==
    \E x \in Args :
        LET r == find(parent, x)
        IN /\ op' = "find"
           /\ ax' = x
           /\ ay' = 0
           /\ panicked' = r.panic
           /\ retK' = r.ret
           /\ retB' = FALSE
           /\ parent0' = parent
           /\ rank0' = rank
           /\ repeat' = (op = "find" /\ ax = x)
           /\ UNCHANGED <<parent, rank, n, wrapped, frame, part, merges>>

DoFindMut ==
    \E x \in Args :
        LET r == find_mut(parent, x)
        IN /\ op' = "find_mut"
           /\ ax' = x
           /\ ay' = 0
           /\ panicked' = r.panic
           /\ retK' = r.ret
           /\ retB' = FALSE
           /\ parent' = r.parent
           /\ parent0' = parent
           /\ rank0' = rank
           /\ repeat' = (op = "find_mut" /\ ax = x)
           /\ UNCHANGED <<rank, n, wrapped, frame, part, merges>>

UnionCall(x, y) ==
    LET r == union(parent, rank, x, y)
    IN /\ op' = "union"
       /\ ax' = x
       /\ ay' = y
       /\ panicked' = r.panic
       /\ retK' = 0
       /\ retB' = r.ret
       /\ parent' = r.parent
       /\ rank' = r.rank
       /\ parent0' = parent
       /\ rank0' = rank
       /\ repeat' = (op = "union" /\ ax = x /\ ay = y)
       /\ part' = IF x < n /\ y < n THEN Merge(part, x, y) ELSE part
       /\ merges' = IF r.ret THEN merges + 1 ELSE merges
       /\ UNCHANGED <<n, wrapped, frame>>

DoUnion == \E x \in Args, y \in Args : UnionCall(x, y)

Next == DoFind \/ DoFindMut \/ DoUnion

Spec == Init /\ [][Next]_vars

-----------------------------------------------------------------------------
(* A second environment: the caller first builds, union by union, a tree   *)
(* whose longest parent chain has three links (7 -> 6 -> 4 -> 0), with any *)
(* lookups in between, and then calls the methods freely.                  *)

Script == << <<0, 1>>, <<2, 3>>, <<0, 2>>, <<4, 5>>, <<6, 7>>, <<4, 6>>, <<0, 4>> >>

\* Len(Script) merges join Len(Script) + 1 elements.
DeepN == Len(Script) + 1

Scripted(x, y) ==
    IF merges < Len(Script) THEN <<x, y>> = Script[merges + 1] ELSE TRUE

InitDeep == Constructed(DeepN)

DoUnionScripted ==
    \E x \in Args, y \in Args : Scripted(x, y) /\ UnionCall(x, y)

NextDeep == DoFind \/ DoFindMut \/ DoUnionScripted

SpecDeep == InitDeep /\ [][NextDeep]_vars

-----------------------------------------------------------------------------
(* A third environment, for construction alone: the caller picks any n the *)
(* index type K can count, up to its full range, and calls new(n), which   *)
(* runs one step of its body at a time.                                    *)

InitNew ==
    /\ n \in 0..KRange
    /\ frame = NewStart(n)
    /\ parent = EmptyVec
    /\ rank = EmptyVec
    /\ wrapped = FALSE
    /\ op = "start"
    /\ ax = 0
    /\ ay = 0
    /\ panicked = FALSE
    /\ retK = 0
    /\ retB = FALSE
    /\ parent0 = EmptyVec
    /\ rank0 = EmptyVec
    /\ repeat = FALSE
    /\ part = EmptyVec
    /\ merges = 0

DoNewStep ==
    /\ op = "start"
    /\ frame.pc # "done"
    /\ frame' = NewStep(frame, n)
    /\ UNCHANGED <<parent, rank, n, wrapped, op, ax, ay, panicked, retK, retB,
                   parent0, rank0, repeat, part, merges>>

DoNewReturn ==
    /\ op = "start"
    /\ frame.pc = "done"
    /\ parent' = frame.parent
    /\ rank' = frame.rank
    /\ wrapped' = frame.wrapped
    /\ op' = "new"
    /\ UNCHANGED <<n, frame, ax, ay, panicked, retK, retB, parent0, rank0,
                   repeat, part, merges>>

NextNew == DoNewStep \/ DoNewReturn

SpecNew == InitNew /\ [][NextNew]_vars

-----------------------------------------------------------------------------
(* Vocabulary of the properties *)

\* The in-range indices.
Valid == 0..(n - 1)

\* x and y are in the same set of the structure whose parent vector is p.
SameSet(p, x, y) == find(p, x).ret = find(p, y).ret

\* The element k parent links away from x.
RECURSIVE Follow(_, _, _)
Follow(p, x, k) == IF k = 0 THEN x ELSE Follow(p, p[x], k - 1)

\* i lies on the parent chain that starts at x (x and its root included).
OnChain(p, x, i) == \E k \in 0..VecLen(p) : Follow(p, x, k) = i

\* r is where the parent chain of x ends.
ChainEnd(p, x, r) == p[r] = r /\ OnChain(p, x, r)

\* The partition into classes is the same under p and q.
SamePartition(p, q) ==
    \A a, b \in Valid : SameSet(p, a, b) <=> SameSet(q, a, b)

Roots(p) == {i \in Valid : p[i] = i}

-----------------------------------------------------------------------------
(* Properties *)

\* C1: find(x) = find(y) exactly when x and y are connected in the closure of
\* the pairs passed to union so far.
C1_RefinesPartition ==
    \A x, y \in Valid : SameSet(parent, x, y) <=> (part[x] = part[y])

\* C1 witness: after two merges and a compressing lookup, two elements that
\* are joined only transitively, next to an element of another class.
C1_Witness ==
    /\ op = "find_mut"
    /\ merges >= 2
    /\ \E x, y, z \in Valid :
          /\ x # y
          /\ part[x] = part[y]
          /\ parent0[x] # y
          /\ parent0[y] # x
          /\ part[z] # part[x]

\* C2: an in-range union returns false exactly when its arguments were in
\* the same class before the call, and a false union leaves the partition and
\* every rank as they were.
C2_UnionResult ==
    (op = "union" /\ ax \in Valid /\ ay \in Valid) =>
        /\ ~panicked
        /\ (retB = FALSE) <=> SameSet(parent0, ax, ay)
        /\ (retB = FALSE) => (rank = rank0 /\ SamePartition(parent, parent0))

\* C2 witness: a union of two distinct elements of one class, which returns
\* false after compressing a path.
C2_Witness ==
    /\ op = "union"
    /\ ax \in Valid /\ ay \in Valid /\ ax # ay
    /\ retB = FALSE
    /\ parent # parent0

\* C3: after a union that returns true its arguments are in one class, and
\* no call separates two elements that were in one class when it started
\* (parent0 is parent as the last call found it, so this holds of every step,
\* and by induction between any state and every later one).
C3_MonotonicMerging ==
    /\ (op = "union" /\ retB) => SameSet(parent, ax, ay)
    /\ \A a, b \in Valid : SameSet(parent0, a, b) => SameSet(parent, a, b)

\* C3 witness: a merge gave two elements that were already together a new
\* representative.
C3_Witness ==
    /\ op = "union"
    /\ retB
    /\ \E a, b \in Valid :
          /\ a # b
          /\ SameSet(parent0, a, b)
          /\ find(parent, a).ret # find(parent0, a).ret
          /\ SameSet(parent, a, b)

\* C4: the number of representatives is n minus the number of unions that
\* returned true.
C4_CountConservation ==
    Cardinality(Roots(parent)) = n - merges

\* C4 witness: a union that returned false after at least two merges.
C4_Witness ==
    /\ op = "union"
    /\ ax \in Valid /\ ay \in Valid /\ ax # ay
    /\ ~retB
    /\ merges >= 2
    /\ Cardinality(Roots(parent)) = n - merges

\* C5: an in-range find changes nothing and returns the end of the parent
\* chain of its argument.
C5_FindPure ==
    (op = "find" /\ ax \in Valid) =>
        /\ ~panicked
        /\ parent = parent0
        /\ rank = rank0
        /\ ChainEnd(parent0, ax, retK)

\* C5 witness: a find whose result is two or more links away.
C5_Witness ==
    /\ op = "find"
    /\ ax \in Valid
    /\ ~panicked
    /\ parent[ax] # ax
    /\ parent[ax] # retK

\* C6: an in-range find_mut returns what find returns and is exactly full
\* path compression.
C6_FindMutCompresses ==
    (op = "find_mut" /\ ax \in Valid) =>
        /\ ~panicked
        /\ retK = find(parent0, ax).ret
        /\ \A i \in Valid :
              IF OnChain(parent0, ax, i)
              THEN parent[i] = retK
              ELSE parent[i] = parent0[i]
        /\ rank = rank0
        /\ \A z \in Valid : find(parent, z).ret = find(parent0, z).ret

\* C6 witness: a find_mut that re-pointed an element and its parent, a chain
\* of three links.
C6_Witness ==
    /\ op = "find_mut"
    /\ ax \in Valid
    /\ parent0[ax] # ax
    /\ parent0[parent0[ax]] # parent0[ax]
    /\ parent0[parent0[ax]] # retK
    /\ parent[ax] = retK
    /\ parent[parent0[ax]] = retK

\* C7: after find_mut(x) the parent of x is the representative returned, and
\* a second find_mut(x) right after returns the same representative and
\* changes nothing.
C7_IdempotentFindMut ==
    [][ (op' = "find_mut" /\ ax' \in Valid) =>
            /\ parent'[ax'] = retK'
            /\ (op = "find_mut" /\ ax = ax') =>
                   /\ retK' = retK
                   /\ parent' = parent
                   /\ rank' = rank
      ]_vars

\* C7 witness: the second of two find_mut calls on a non-representative.
C7_Witness ==
    /\ op = "find_mut"
    /\ repeat
    /\ ax \in Valid
    /\ retK # ax
    /\ parent[ax] = retK
    /\ parent = parent0

\* C8: union panics whenever one of its arguments is out of bounds.
C8_UnionOutOfBoundsPanics ==
    (op = "union" /\ (ax >= n \/ ay >= n)) => panicked

\* C9: find(i), find_mut(i) and union(x, i) with x < n <= i panic and leave
\* parent and rank as they were.
C9_FailureWithoutMutation ==
    ( \/ (op \in {"find", "find_mut"} /\ ax >= n)
      \/ (op = "union" /\ ax < n /\ ay >= n) ) =>
        /\ panicked
        /\ parent = parent0
        /\ rank = rank0

\* C10: for a valid x, union(x, x) returns false and changes nothing, and a
\* find(x) repeated right away returns the same value.
C10_Reflexivity ==
    [][ /\ (op' = "union" /\ ax' = ay' /\ ax' \in Valid) =>
              /\ ~panicked'
              /\ retB' = FALSE
              /\ parent' = parent
              /\ rank' = rank
        /\ (op = "find" /\ op' = "find" /\ ax' = ax /\ ax \in Valid) =>
              retK' = retK
      ]_vars

\* C10 witness: union(x, x) on an element whose chain has two links.
C10_Witness ==
    /\ op = "union"
    /\ ax = ay
    /\ ax \in Valid
    /\ retB = FALSE
    /\ parent[ax] # ax
    /\ parent[parent[ax]] # parent[ax]
    /\ parent = parent0

\* C11: from the state an in-range union(x, y) started in, union(y, x)
\* returns the same boolean and yields the same partition into classes.
C11_UnionSymmetry ==
    (op = "union" /\ ax \in Valid /\ ay \in Valid) =>
        LET swapped == union(parent0, rank0, ay, ax)
        IN /\ swapped.panic = panicked
           /\ swapped.ret = retB
           /\ SamePartition(parent, swapped.parent)

\* C11 witness: a merge of classes of equal rank, where the two orders of
\* the arguments choose different representatives.
C11_Witness ==
    /\ op = "union"
    /\ ax \in Valid /\ ay \in Valid
    /\ retB
    /\ parent0[ax] # ax
    /\ find(parent, ax).ret # find(union(parent0, rank0, ay, ax).parent, ax).ret

\* C12: for every n from 0 up to the full range of K, new(n) yields parent
\* and rank of length n with parent[i] = i and rank[i] = 0, and never
\* increments its index past the largest K.
C12_Construction ==
    op = "new" =>
        /\ VecLen(parent) = n
        /\ VecLen(rank) = n
        /\ \A i \in 0..(n - 1) : parent[i] = i /\ rank[i] = 0
        /\ ~wrapped

\* C12 witness: new(256) for K = u8, whose last element is the largest K.
C12_Witness ==
    /\ op = "new"
    /\ n = KRange
    /\ VecLen(parent) = KRange
    /\ parent[KRange - 1] = KRange - 1
    /\ ~wrapped

\* C13: a union that returns true links the two pre-call representatives by
\* rank: the lower rank goes under the higher, on a tie yrep goes under xrep
\* and rank[xrep] grows by one; no other rank changes.
C13_UnionByRank ==
    (op = "union" /\ retB) =>
        LET xrep == find(parent0, ax).ret
            yrep == find(parent0, ay).ret
        IN /\ rank0[xrep] < rank0[yrep] =>
                 (parent[xrep] = yrep /\ parent[yrep] = yrep /\ rank = rank0)
           /\ rank0[xrep] > rank0[yrep] =>
                 (parent[yrep] = xrep /\ parent[xrep] = xrep /\ rank = rank0)
           /\ rank0[xrep] = rank0[yrep] =>
                 /\ parent[yrep] = xrep
                 /\ parent[xrep] = xrep
                 /\ rank = [rank0 EXCEPT ![xrep] = rank0[xrep] + 1]
           /\ (n = 2 /\ ax = 0 /\ ay = 1) =>
                 (find(parent, 0).ret = 0 /\ rank[0] = 1)

\* C13 witness: a merge in which the representative of x has the lower rank
\* and goes under the representative of y.
C13_Witness ==
    /\ op = "union"
    /\ retB
    /\ rank0[find(parent0, ax).ret] < rank0[find(parent0, ay).ret]
    /\ parent[find(parent0, ax).ret] = find(parent0, ay).ret

\* C14: from every element the parent links reach, within n - 1 steps, an
\* element that is its own parent, so the loop of find and the recursion of
\* find_mut end.
C14_Acyclic ==
    \A x \in Valid :
        \E k \in 0..(n - 1) :
            LET r == Follow(parent, x, k) IN parent[r] = r

\* C14 witness: after a merge, an element whose chain needs two steps while
\* every chain ends.
C14_Witness ==
    /\ op = "union"
    /\ retB
    /\ \E x \in Valid :
          /\ parent[x] # x
          /\ parent[parent[x]] # parent[x]
          /\ parent[parent[parent[x]]] = parent[parent[x]]
    /\ \A x \in Valid : \E k \in 0..(n - 1) :
          parent[Follow(parent, x, k)] = Follow(parent, x, k)

\* The number of parent links from x to the end of its chain.
RECURSIVE Depth(_, _)
Depth(p, x) == IF p[x] = x THEN 0 ELSE 1 + Depth(p, p[x])

\* C15: for every representative r, no element of its class is more than
\* rank[r] parent links away from it.
C15_RankBoundsHeight ==
    \A r \in Roots(parent) :
        \A x \in Valid :
            ChainEnd(parent, x, r) => Depth(parent, x) <= rank[r]

\* C15 witness: a representative of rank 2 with an element exactly two links
\* away (the bound is met), next to an element one link away.
C15_Witness ==
    \E r \in Roots(parent) : \E x, y \in Valid :
        /\ ChainEnd(parent, x, r)
        /\ ChainEnd(parent, y, r)
        /\ rank[r] = 2
        /\ Depth(parent, x) = 2
        /\ Depth(parent, y) = 1

\* C16: no call lowers a rank; a rank changes only in a union that merges
\* two representatives of equal rank, at the one that stays a representative,
\* and then by exactly one (rank0 is rank as the last call found it).
C16_RankMonotonic ==
    \A i \in Valid :
        /\ rank[i] >= rank0[i]
        /\ rank[i] # rank0[i] =>
              /\ op = "union"
              /\ retB
              /\ parent0[i] = i
              /\ parent[i] = i
              /\ i \in {find(parent0, ax).ret, find(parent0, ay).ret}
              /\ rank0[find(parent0, ax).ret] = rank0[find(parent0, ay).ret]
              /\ rank[i] = rank0[i] + 1

\* C16 witness: a tie merge that raised the rank of a representative from 1
\* to 2, while another element keeps a rank that is no longer meaningful.
C16_Witness ==
    /\ op = "union"
    /\ retB
    /\ \E i, j \in Valid :
          /\ rank0[i] = 1
          /\ rank[i] = 2
          /\ parent[i] = i
          /\ parent[j] # j
          /\ rank[j] = 1
          /\ rank0[j] = 1

\* C17: a member stays a member; find and find_mut leave the set of
\* representatives as it is; a union that returns true turns exactly one
\* representative into a member and a union that returns false none
\* (parent0 is parent as the last call found it).
C17_RoleStability ==
    /\ \A i \in Valid : parent0[i] # i => parent[i] # i
    /\ op \in {"find", "find_mut"} => Roots(parent) = Roots(parent0)
    /\ (op = "union" /\ retB) =>
           /\ Roots(parent) \subseteq Roots(parent0)
           /\ Cardinality(Roots(parent0) \ Roots(parent)) = 1
    /\ (op = "union" /\ ~retB) => Roots(parent) = Roots(parent0)

\* C17 witness: a find_mut that re-pointed a member to its representative;
\* the member is still a member.
C17_Witness ==
    /\ op = "find_mut"
    /\ ax \in Valid
    /\ parent0[ax] # ax
    /\ parent[ax] # parent0[ax]
    /\ parent[ax] # ax
    /\ Roots(parent) = Roots(parent0)

\* C18: parent and rank have length n and every parent entry is an index
\* below n, so every index find and find_mut take without a bounds check
\* passes the debug assertion of get_unchecked, the checked rank accesses of
\* union are in bounds, and no call with in-range arguments panics.
C18_WellFormed ==
    /\ VecLen(parent) = n
    /\ VecLen(rank) = n
    /\ \A i \in Valid : parent[i] \in Valid
    /\ \A x \in Valid : \A k \in 0..n :
          InBounds(parent, to_uint(Follow(parent, x, k)))
    /\ \A x \in Valid :
          InBounds(rank, to_uint(find(parent, x).ret))
    /\ (op \in {"find", "find_mut"} /\ ax \in Valid) => ~panicked
    /\ (op = "union" /\ ax \in Valid /\ ay \in Valid) => ~panicked

\* C18 witness: a find_mut that walked two links with unchecked indexing and
\* returned.
C18_Witness ==
    /\ op = "find_mut"
    /\ ax \in Valid
    /\ ~panicked
    /\ parent0[ax] # ax
    /\ parent0[parent0[ax]] # parent0[ax]
    /\ InBounds(parent0, to_uint(parent0[parent0[ax]]))
    /\ VecLen(parent) = n

RECURSIVE Pow2(_)
Pow2(k) == IF k = 0 THEN 1 ELSE 2 * Pow2(k - 1)

\* The elements whose parent chain ends at r.
Class(p, r) == {x \in Valid : ChainEnd(p, x, r)}

\* C19: the class of every representative r has at least 2^rank[r]
\* elements, so 2^rank[r] <= n, and the increment of a rank in union does
\* not wrap the u8 cell.
C19_RankLogarithmic ==
    /\ \A r \in Roots(parent) :
          /\ Cardinality(Class(parent, r)) >= Pow2(rank[r])
          /\ Pow2(rank[r]) <= n
    /\ \A i \in Valid :
          rank[i] # rank0[i] =>
              (rank0[i] + 1 < RankRange /\ rank[i] = rank0[i] + 1)

\* C19 witness: a tie merge that raised a rank to 2 in a class of exactly
\* four elements.
C19_Witness ==
    /\ op = "union"
    /\ retB
    /\ \E r \in Roots(parent) :
          /\ rank0[r] = 1
          /\ rank[r] = 2
          /\ Cardinality(Class(parent, r)) = 4

\* C20: an in-range union(x, y) leaves parent[z] and find(z) unchanged for
\* every z outside the pre-call classes of x and y, and when it returns true
\* the representative of the merged class is one of the two pre-call
\* representatives.
C20_UnionLocality ==
    (op = "union" /\ ax \in Valid /\ ay \in Valid) =>
        LET xrep == find(parent0, ax).ret
            yrep == find(parent0, ay).ret
        IN /\ \A z \in Valid :
                 find(parent0, z).ret \notin {xrep, yrep} =>
                     /\ parent[z] = parent0[z]
                     /\ find(parent, z).ret = find(parent0, z).ret
           /\ retB =>
                 \E r \in {xrep, yrep} :
                     \A z \in Valid :
                         find(parent0, z).ret \in {xrep, yrep} =>
                             find(parent, z).ret = r

\* C20 witness: a merge called on a member of one class and an element of
\* another, next to an element of a third class that the call left alone.
C20_Witness ==
    /\ op = "union"
    /\ ax \in Valid /\ ay \in Valid
    /\ retB
    /\ parent0[ax] # ax
    /\ \E z \in Valid :
          /\ find(parent0, z).ret \notin {find(parent0, ax).ret, find(parent0, ay).ret}
          /\ parent[z] = parent0[z]

====
